---- MODULE Spec2Model ----
(***************************************************************************)
(* A model of src/models.py: the Config record, the Embeddings, the two    *)
(* QKV attention modules, FeedForward and the Transformer that composes    *)
(* them (ALBERT embeddings feeding a Perceiver latent bottleneck).         *)
(*                                                                         *)
(* Tensors are records [shape, val]: shape is the exact torch shape, val   *)
(* an integer digest per (batch, position) that depends on everything the  *)
(* real value depends on (operands and the parameters of the module that   *)
(* produced it).  Shapes follow torch's rules for Linear, view, transpose, *)
(* matmul and broadcasting, so a shape error of the code is a shape error  *)
(* of the model.                                                           *)
(*                                                                         *)
(* src/models.py as given does not compile (the docstring at line 188 is   *)
(* indented deeper than the methods that follow it); the model reads the   *)
(* Transformer class as its statements stand.                              *)
(***************************************************************************)
EXTENDS Integers, Sequences, FiniteSets, TLC

VARIABLES model, gcfg, weights, latents, scores, th, memo, between

vars == <<model, gcfg, weights, latents, scores, th, memo, between>>

(***************************************************************************)
(* Bounds of the model.                                                    *)
(***************************************************************************)
\* largest process_layers a configuration (or the module-level cfg) carries
MaxLayers == 2
\* longest input sequence offered to forward (max_len of the configurations is 2)
MaxSeq == 3

\* line 126: scores -= 10000.0 * (1.0 - mask)
MaskPenalty == 10000

Threads == {1, 2}

\* Python's None for an optional tensor argument or field
None == <<>>

\* the shape of a failed tensor operation (torch raises RuntimeError)
ShapeError == <<-1>>

(***************************************************************************)
(* Small helpers.                                                          *)
(***************************************************************************)
Last(s) == s[Len(s)]

Front(s) == SubSeq(s, 1, Len(s) - 1)

Mix(a, b) == (31 * a + 17 * b + 7) % 101

\* f as an explicit tuple (the same value, evaluated once)
Tup(f) == SubSeq(f, 1, Len(f))

RECURSIVE SumSeq(_)
SumSeq(s) == IF s = <<>> THEN 0 ELSE s[1] + SumSeq(Tail(s))

RECURSIVE MaxSeqOf(_)
MaxSeqOf(s) ==
    IF Len(s) = 1 THEN s[1]
    ELSE LET m == MaxSeqOf(Tail(s)) IN IF s[1] > m THEN s[1] ELSE m

(***************************************************************************)
(* Config (lines 21-47): a NamedTuple; construction validates nothing.     *)
(* The configurations explored are small: a consistent one, and one for    *)
(* each way the widths and head counts can disagree.                       *)
(***************************************************************************)
BaseConfig ==
    [vocab_size |-> 2, hidden |-> 2, embedding |-> 1, max_len |-> 2,
     n_segments |-> 2, C |-> 2, N |-> 3, D |-> 2, cross_heads |-> 1,
     latent_heads |-> 2, ffw |-> 3, process_layers |-> 1]

Config ==
    {[BaseConfig EXCEPT !.process_layers = p] : p \in 1..MaxLayers}
    \cup
    { [BaseConfig EXCEPT !.hidden = 3],
      [BaseConfig EXCEPT !.C = 3],
      [BaseConfig EXCEPT !.D = 3],
      [BaseConfig EXCEPT !.D = 3, !.cross_heads = 2, !.latent_heads = 1],
      [BaseConfig EXCEPT !.hidden = 3, !.C = 3, !.cross_heads = 2] }

(***************************************************************************)
(* Shapes: torch's rules.                                                  *)
(***************************************************************************)
\* a python dimension index (negative counts from the end) as a position 1..Len
Dim(s, d) == IF d < 0 THEN Len(s) + d + 1 ELSE d + 1

\* nn.Linear(inF, outF) applied to a tensor of shape s
LinearShape(s, inF, outF) ==
    IF s = ShapeError \/ Len(s) = 0 THEN ShapeError
    ELSE IF Last(s) # inF THEN ShapeError
    ELSE Front(s) \o <<outF>>

\* tensor.transpose(d0, d1)
Transpose(s, d0, d1) ==
    IF s = ShapeError THEN ShapeError
    ELSE IF Dim(s, d0) \notin 1..Len(s) \/ Dim(s, d1) \notin 1..Len(s) THEN ShapeError
    ELSE [k \in 1..Len(s) |->
            IF k = Dim(s, d0) THEN s[Dim(s, d1)]
            ELSE IF k = Dim(s, d1) THEN s[Dim(s, d0)]
            ELSE s[k]]

\* s left-padded with 1s to rank r
PadTo(s, r) == [k \in 1..r |-> IF k <= r - Len(s) THEN 1 ELSE s[k - (r - Len(s))]]

\* the broadcast of two shapes
BroadcastShape(a, b) ==
    IF a = ShapeError \/ b = ShapeError THEN ShapeError
    ELSE LET r  == IF Len(a) > Len(b) THEN Len(a) ELSE Len(b)
             pa == PadTo(a, r)
             pb == PadTo(b, r)
         IN  IF \A k \in 1..r : pa[k] = pb[k] \/ pa[k] = 1 \/ pb[k] = 1
             THEN [k \in 1..r |-> IF pa[k] = 1 THEN pb[k] ELSE pa[k]]
             ELSE ShapeError

\* a @ b for tensors of rank >= 2
MatMulShape(a, b) ==
    IF a = ShapeError \/ b = ShapeError \/ Len(a) < 2 \/ Len(b) < 2 THEN ShapeError
    ELSE LET ba == SubSeq(a, 1, Len(a) - 2)
             bb == SubSeq(b, 1, Len(b) - 2)
             bc == BroadcastShape(ba, bb)
         IN  IF a[Len(a)] # b[Len(b) - 1] \/ bc = ShapeError
             THEN ShapeError
             ELSE bc \o <<a[Len(a) - 1], b[Len(b)]>>

\* utils.split_last(x, (heads, -1)): view the last axis as (heads, width/heads);
\* the view fails when heads does not divide the width
SplitLast(s, heads) ==
    IF s = ShapeError \/ Len(s) = 0 THEN ShapeError
    ELSE IF Last(s) % heads # 0 THEN ShapeError
    ELSE Front(s) \o <<heads, Last(s) \div heads>>

\* utils.merge_last(x, 2): merge the last two axes into one
MergeLast(s) ==
    IF s = ShapeError \/ Len(s) < 2 THEN ShapeError
    ELSE SubSeq(s, 1, Len(s) - 2) \o <<s[Len(s) - 1] * s[Len(s)]>>

(***************************************************************************)
(* Tensors and the results of the modules' forward methods.                *)
(***************************************************************************)
NoTensor == [shape |-> <<>>, val |-> <<>>]

Ok(t) == [err |-> "", out |-> t]

Raise(e) == [err |-> e, out |-> NoTensor]

\* the three projections of an attention module and the two layers of a
\* feed-forward module are separate parameters of the same module instance
ParamQ(w) == w

ParamK(w) == w + 1

ParamV(w) == w + 2

\* nn.LayerNorm(width) with parameters w
LayerNormOp(t, width, w) ==
    IF Last(t.shape) # width THEN Raise("RuntimeError:layer_norm")
    ELSE Ok([shape |-> t.shape,
             val |-> Tup([b \in DOMAIN t.val |->
                       Tup([n \in DOMAIN t.val[b] |-> Mix(t.val[b][n], w)])])])

(***************************************************************************)
(* Embeddings.forward (lines 73-83).  x and seg are [B, S] integer         *)
(* tensors, given as B rows of S entries.                                  *)
(***************************************************************************)
\* a faulty variant: a lookup that takes a negative index, as Python sequences do
InTable_NoLowerBound(ix, num) == ix < num

\* nn.Embedding(num, _) raises IndexError for an index outside 0..num-1
InTable(ix, num) == ix >= 0 /\ ix < num

EmbedIndexOk(cfg, x, seg) ==
    /\ \A b \in DOMAIN x : \A i \in DOMAIN x[b] : InTable(x[b][i], cfg.vocab_size)
    /\ \A b \in DOMAIN x : \A i \in DOMAIN x[b] : InTable(i - 1, cfg.max_len)
    /\ \A b \in DOMAIN seg : \A i \in DOMAIN seg[b] : InTable(seg[b][i], cfg.n_segments)

EmbeddingsForward(cfg, w, x, seg) ==
    LET B   == Len(x)
        S   == Len(x[1])
        e1  == <<B, S, cfg.embedding>>
        e2  == LinearShape(e1, cfg.embedding, cfg.hidden)
        ps  == <<B, S, cfg.hidden>>
        ss  == <<Len(seg), Len(seg[1]), cfg.hidden>>
        sum == BroadcastShape(BroadcastShape(e2, ps), ss)
    IN  IF ~EmbedIndexOk(cfg, x, seg) THEN Raise("IndexError")
        ELSE IF sum = ShapeError THEN Raise("RuntimeError:embed")
        ELSE LayerNormOp(
               [shape |-> sum,
                val |-> Tup([b \in 1..B |-> Tup([i \in 1..S |->
                           Mix(Mix(Mix(x[b][i], ParamQ(w)), Mix(i - 1, ParamK(w))),
                               Mix(seg[b][i], ParamV(w)))])])],
               cfg.hidden, w + 3)

(***************************************************************************)
(* FeedForward.forward (lines 182-184): fc2(gelu(fc1(x))).                 *)
(***************************************************************************)
Gelu(v) == (v * v + v) % 101

FeedForwardOp(cfg, w, x) ==
    LET s1 == LinearShape(x.shape, cfg.D, cfg.ffw)
        s2 == LinearShape(s1, cfg.ffw, cfg.D)
    IN  IF s2 = ShapeError THEN Raise("RuntimeError:fc")
        ELSE Ok([shape |-> s2,
                 val |-> Tup([b \in DOMAIN x.val |-> Tup([n \in DOMAIN x.val[b] |->
                            Mix(Gelu(Mix(x.val[b][n], ParamQ(w))), ParamK(w))])])])

(***************************************************************************)
(* Attention scores.  A score tensor is indexed [b][h][n][i]: batch, head, *)
(* query position, key position.                                           *)
(***************************************************************************)
\* a faulty variant: the penalty lands on the kept positions: 10000.0 * mask
ApplyMask_Inverted(sc, mask) ==
    IF mask = None THEN sc
    ELSE Tup([b \in DOMAIN sc |-> Tup([h \in DOMAIN sc[b] |-> Tup([n \in DOMAIN sc[b][h] |->
            Tup([i \in DOMAIN sc[b][h][n] |->
                sc[b][h][n][i] - MaskPenalty * mask[b][i]])])])])

\* lines 124-126: mask[:, None, None, :] broadcast over heads and query
\* positions; scores -= 10000.0 * (1.0 - mask)
ApplyMask(sc, mask) ==
    IF mask = None THEN sc
    ELSE Tup([b \in DOMAIN sc |-> Tup([h \in DOMAIN sc[b] |-> Tup([n \in DOMAIN sc[b][h] |->
            Tup([i \in DOMAIN sc[b][h][n] |->
                sc[b][h][n][i] - MaskPenalty * (1 - mask[b][i])])])])])

\* F.softmax(scores, dim=-1): a row of softmax is fixed by, and fixes, the
\* row's scores up to a common shift, so the row minus its maximum stands for it
SoftmaxRow(row) == LET m == MaxSeqOf(row) IN Tup([i \in DOMAIN row |-> row[i] - m])

Softmax(sc) ==
    Tup([b \in DOMAIN sc |-> Tup([h \in DOMAIN sc[b] |-> Tup([n \in DOMAIN sc[b][h] |->
        SoftmaxRow(sc[b][h][n])])])])

\* (scores @ v) merged over heads: the digest of position n of batch b
Attend(soft, v, b, n) ==
    SumSeq(Tup([h \in DOMAIN soft[b] |->
              SumSeq(Tup([i \in DOMAIN soft[b][h][n] |->
                            Mix(soft[b][h][n][i], v[b][i][h])]))])) % 101

AttnResult(e, t, raw, masked, soft) ==
    [err |-> e, out |-> t, raw |-> raw, masked |-> masked, soft |-> soft]

(***************************************************************************)
(* QKVAttention_cross.forward (lines 110-136).  x is the embedded input    *)
(* [B, S, hidden]; latent is the latent array [N, D], with no batch axis.  *)
(***************************************************************************)
CrossAttnCompute(cfg, heads, w, x, latent, mask) ==
    LET qs  == LinearShape(latent.shape, cfg.D, cfg.D)
        ks  == LinearShape(x.shape, cfg.C, cfg.D)
        vs  == LinearShape(x.shape, cfg.C, cfg.D)
        q3  == SplitLast(qs, heads)
        k3  == SplitLast(ks, heads)
        v3  == SplitLast(vs, heads)
        qt  == Transpose(q3, -2, -3)
        kt  == Transpose(k3, -2, -3)
        vt  == Transpose(v3, -2, -3)
        scs == MatMulShape(qt, Transpose(kt, -2, -1))
        ms  == IF mask = None THEN scs
               ELSE BroadcastShape(scs, <<Len(mask), 1, 1, Len(mask[1])>>)
        hs  == MergeLast(Transpose(MatMulShape(scs, vt), 1, 2))
        B   == x.shape[1]
        S   == x.shape[2]
        N   == latent.shape[1]
        qv  == Tup([n \in 1..N |-> Tup([h \in 1..heads |->
                    Mix(Mix(latent.val[n], ParamQ(w)), h)])])
        kv  == Tup([b \in 1..B |-> Tup([i \in 1..S |-> Tup([h \in 1..heads |->
                    Mix(Mix(x.val[b][i], ParamK(w)), h)])])])
        vv  == Tup([b \in 1..B |-> Tup([i \in 1..S |-> Tup([h \in 1..heads |->
                    Mix(Mix(x.val[b][i], ParamV(w)), h)])])])
        raw == Tup([b \in 1..B |-> Tup([h \in 1..heads |-> Tup([n \in 1..N |->
                    Tup([i \in 1..S |-> Mix(qv[n][h], kv[b][i][h])])])])])
        msk == ApplyMask(raw, mask)
        sm  == Softmax(msk)
    IN  IF ks = ShapeError THEN AttnResult("RuntimeError:proj_k", NoTensor, None, None, None)
        ELSE IF q3 = ShapeError \/ k3 = ShapeError \/ v3 = ShapeError
             THEN AttnResult("RuntimeError:split_last", NoTensor, None, None, None)
        ELSE IF scs = ShapeError
             THEN AttnResult("RuntimeError:matmul", NoTensor, None, None, None)
        ELSE IF ms # scs
             THEN AttnResult("RuntimeError:mask", NoTensor, None, None, None)
        ELSE IF hs = ShapeError
             THEN AttnResult("RuntimeError:matmul", NoTensor, None, None, None)
        ELSE AttnResult("", [shape |-> hs,
                             val |-> Tup([b \in 1..B |-> Tup([n \in 1..N |-> Attend(sm, vv, b, n)])])],
                        raw, msk, sm)

\* a faulty variant: the key and value projections take the embedding width:
\* nn.Linear(cfg.hidden, cfg.D)
CrossAttnForward_HiddenKV(cfg, heads, w, x, latent, mask) ==
    CrossAttnCompute([cfg EXCEPT !.C = cfg.hidden], heads, w, x, latent, mask)

CrossAttnForward(cfg, heads, w, x, latent, mask) ==
    CrossAttnCompute(cfg, heads, w, x, latent, mask)

(***************************************************************************)
(* QKVAttention_self.forward (lines 149-171).  x is [B, N, D].             *)
(***************************************************************************)
SelfAttnForward(cfg, heads, w, x, mask) ==
    LET qs  == LinearShape(x.shape, cfg.D, cfg.D)
        q3  == SplitLast(qs, heads)
        qt  == Transpose(q3, -2, -3)
        scs == MatMulShape(qt, Transpose(qt, -2, -1))
        ms  == IF mask = None THEN scs
               ELSE BroadcastShape(scs, <<Len(mask), 1, 1, Len(mask[1])>>)
        hs  == MergeLast(Transpose(MatMulShape(scs, qt), 1, 2))
        B   == x.shape[1]
        N   == x.shape[2]
        qv  == Tup([b \in 1..B |-> Tup([n \in 1..N |-> Tup([h \in 1..heads |->
                    Mix(Mix(x.val[b][n], ParamQ(w)), h)])])])
        kv  == Tup([b \in 1..B |-> Tup([n \in 1..N |-> Tup([h \in 1..heads |->
                    Mix(Mix(x.val[b][n], ParamK(w)), h)])])])
        vv  == Tup([b \in 1..B |-> Tup([n \in 1..N |-> Tup([h \in 1..heads |->
                    Mix(Mix(x.val[b][n], ParamV(w)), h)])])])
        raw == Tup([b \in 1..B |-> Tup([h \in 1..heads |-> Tup([n \in 1..N |->
                    Tup([i \in 1..N |-> Mix(qv[b][n][h], kv[b][i][h])])])])])
        msk == ApplyMask(raw, mask)
        sm  == Softmax(msk)
    IN  IF qs = ShapeError THEN AttnResult("RuntimeError:proj_q", NoTensor, None, None, None)
        ELSE IF q3 = ShapeError
             THEN AttnResult("RuntimeError:split_last", NoTensor, None, None, None)
        ELSE IF scs = ShapeError \/ hs = ShapeError
             THEN AttnResult("RuntimeError:matmul", NoTensor, None, None, None)
        ELSE IF ms # scs
             THEN AttnResult("RuntimeError:mask", NoTensor, None, None, None)
        ELSE AttnResult("", [shape |-> hs,
                             val |-> Tup([b \in 1..B |-> Tup([n \in 1..N |-> Attend(sm, vv, b, n)])])],
                        raw, msk, sm)

(***************************************************************************)
(* Residual additions.                                                     *)
(***************************************************************************)
\* y + latents: [B, N, D] + [N, D], broadcast over the batch axis
AddLatent(y, lat) ==
    [shape |-> BroadcastShape(y.shape, lat.shape),
     val |-> Tup([b \in DOMAIN y.val |-> Tup([n \in DOMAIN y.val[b] |->
                (y.val[b][n] + lat.val[n]) % 101])])]

\* y + x, both [B, N, D]
AddT(y, x) ==
    [shape |-> BroadcastShape(y.shape, x.shape),
     val |-> Tup([b \in DOMAIN y.val |-> Tup([n \in DOMAIN y.val[b] |->
                (y.val[b][n] + x.val[b][n]) % 101])])]

(***************************************************************************)
(* Transformer.__init__ (lines 189-221).  Every sub-module is created      *)
(* once and gets an instance number; nothing checks the configuration.     *)
(***************************************************************************)
TransformerInit(cfg) ==
    [cfg |-> cfg,
     embed |-> 1,
     cross_attend_blocks |-> <<2, 3>>,
     layers |-> <<4, 5>>,
     norm1 |-> 6, norm2 |-> 7, norm3 |-> 8, norm4 |-> 9,
     status |-> "constructed"]

Instances == 1..9

AttnInstances == {2, 4}

\* the learned parameters of each instance, as left by construction
InitWeights == [k \in Instances |-> Mix(k, 3)]

\* line 194: self.latents = nn.Parameter(torch.randn(cfg.N, cfg.D))
InitLatents(cfg) ==
    [shape |-> <<cfg.N, cfg.D>>, val |-> [n \in 1..cfg.N |-> Mix(n, 5)]]

\* a faulty variant: a fresh self-attention / feed-forward pair for every round
LatentLayers_PerRound(m, round) == <<m.layers[1] + round - 1, m.layers[2] + round - 1>>

\* line 234: self_attn, self_ff = self.layers, the same pair in every round
LatentLayers(m, round) == m.layers

(***************************************************************************)
(* The inputs offered to forward: (input_ids, token_type_ids,              *)
(* attention_mask).  The configurations have vocab_size = 2,               *)
(* n_segments = 2, max_len = 2.                                            *)
(***************************************************************************)
ValidInputs ==
    { [tok |-> << <<0>> >>,        seg |-> << <<1>> >>,        mask |-> None],
      [tok |-> << <<0, 1>> >>,     seg |-> << <<0, 1>> >>,     mask |-> None],
      [tok |-> << <<0, 1>> >>,     seg |-> << <<0, 1>> >>,     mask |-> << <<1, 1>> >>],
      [tok |-> << <<0, 1>> >>,     seg |-> << <<0, 1>> >>,     mask |-> << <<1, 0>> >>],
      [tok |-> << <<1>>, <<0>> >>, seg |-> << <<0>>, <<0>> >>, mask |-> << <<0>>, <<1>> >>] }

InvalidInputs ==
    { [tok |-> << <<0, 2>> >>, seg |-> << <<0, 0>> >>, mask |-> None],
      [tok |-> << <<-1>> >>,   seg |-> << <<0>> >>,    mask |-> None],
      [tok |-> << <<1>> >>,    seg |-> << <<2>> >>,    mask |-> None],
      [tok |-> << [i \in 1..MaxSeq |-> 0] >>, seg |-> << [i \in 1..MaxSeq |-> 0] >>,
       mask |-> None] }

Inputs == ValidInputs \cup InvalidInputs

\* the inputs of the calls that run concurrently
ConcInputs ==
    { [tok |-> << <<0, 1>> >>, seg |-> << <<0, 1>> >>, mask |-> << <<1, 0>> >>],
      [tok |-> << <<0>> >>,    seg |-> << <<1>> >>,    mask |-> None] }

(***************************************************************************)
(* State.                                                                  *)
(*   model    the Transformer object: its configuration and sub-modules    *)
(*   gcfg     the binding of the module-level name cfg that line 235 reads *)
(*   weights  the learned parameters of every sub-module instance          *)
(*   latents  the latent array self.latents                                *)
(*   scores   the field self.scores of the two attention instances         *)
(*   th       per caller: the position in forward and its local variables  *)
(*   memo     an observer: one earlier call, its input and its outcome     *)
(*   between  an observer: a call with another input returned after memo   *)
(***************************************************************************)
NoInput == [tok |-> <<>>, seg |-> <<>>, mask |-> None]

Idle ==
    [pc |-> "idle", inp |-> NoInput, h |-> NoTensor, x |-> NoTensor, y |-> NoTensor,
     n |-> 0, i |-> 0, trace |-> <<>>, err |-> "", raw |-> None, masked |-> None,
     lraw |-> None, lmasked |-> None, sc |-> None]

\* names a module can find bound to cfg in its globals: none, or a Config
GlobalCfg ==
    {[defined |-> FALSE, process_layers |-> 0]} \cup
    {[defined |-> TRUE, process_layers |-> p] : p \in 0..MaxLayers}

NoMemo == [set |-> FALSE, inp |-> NoInput, outcome |-> Raise("")]

\* the state construction leaves, for a configuration among cfgs
InitWith(cfgs) ==
    /\ \E c \in cfgs :
         /\ model = TransformerInit(c)
         /\ latents = InitLatents(c)
    /\ gcfg \in GlobalCfg
    /\ weights = InitWeights
    /\ scores = [k \in AttnInstances |-> None]
    /\ th = [t \in Threads |-> Idle]
    /\ memo = NoMemo
    /\ between = FALSE

Init == InitWith(Config)

\* the configurations of the models that are called concurrently
ConcConfig == {BaseConfig, [BaseConfig EXCEPT !.D = 3]}

InitConc == InitWith(ConcConfig)

Shared == <<model, gcfg, weights, latents, scores>>

Entry(op, inst, arg, out) == [op |-> op, inst |-> inst, arg |-> arg, out |-> out]

\* the caller's state after an exception left forward at sub-block op
Raised(s, op, inst, arg, e) ==
    [s EXCEPT !.pc = "raised", !.err = e, !.x = NoTensor, !.y = NoTensor,
              !.trace = Append(s.trace, Entry(op, inst, arg, NoTensor))]

\* the caller's state after sub-block op produced out, stored in x
StepX(s, op, inst, arg, out, next) ==
    [s EXCEPT !.pc = next, !.x = out,
              !.trace = Append(s.trace, Entry(op, inst, arg, out))]

\* the caller's state after sub-block op produced out, pending its residual
StepY(s, op, inst, arg, out, next) ==
    [s EXCEPT !.pc = next, !.y = out,
              !.trace = Append(s.trace, Entry(op, inst, arg, out))]

\* forward(input_ids, token_type_ids, attention_mask) is entered (lines 223-226)
Call(t, inp) ==
    /\ th[t].pc = "idle"
    /\ th' = [th EXCEPT ![t] = [Idle EXCEPT !.pc = "embed", !.inp = inp]]
    /\ UNCHANGED <<model, gcfg, weights, latents, scores, memo, between>>

\* lines 227-228: x = self.embed(x, seg); h = x.clone().detach()
Embed(t) ==
    /\ th[t].pc = "embed"
    /\ LET s == th[t]
           r == EmbeddingsForward(model.cfg, weights[model.embed], s.inp.tok, s.inp.seg)
           a == [shape |-> <<Len(s.inp.tok), Len(s.inp.tok[1])>>, val |-> s.inp.tok]
       IN  th' = [th EXCEPT ![t] =
                    IF r.err # "" THEN Raised(s, "embed", model.embed, a, r.err)
                    ELSE [StepX(s, "embed", model.embed, a, r.out, "cross_attn")
                            EXCEPT !.h = r.out]]
    /\ UNCHANGED <<model, gcfg, weights, latents, scores, memo, between>>

\* a faulty variant: the attention output picks up the scores an earlier call left
\* on the module
CrossAttn_ReusesScores(t) ==
    /\ th[t].pc = "cross_attn"
    /\ LET s    == th[t]
           inst == model.cross_attend_blocks[1]
           r    == CrossAttnForward(model.cfg, model.cfg.cross_heads, weights[inst],
                                    s.h, latents, s.inp.mask)
           old  == IF scores[inst] = None THEN 0 ELSE SumSeq(scores[inst][1][1][1])
           o    == [shape |-> r.out.shape,
                    val |-> Tup([b \in DOMAIN r.out.val |-> Tup([n \in DOMAIN r.out.val[b] |->
                               (r.out.val[b][n] + old) % 101])])]
       IN  th' = [th EXCEPT ![t] =
                    IF r.err # "" THEN Raised(s, "cross_attn", inst, s.h, r.err)
                    ELSE [StepY(s, "cross_attn", inst, s.h, o, "cross_store")
                            EXCEPT !.raw = r.raw, !.masked = r.masked, !.sc = r.soft]]
    /\ UNCHANGED <<model, gcfg, weights, latents, scores, memo, between>>

\* lines 229-230 and 117-134: cross_attn(h, self.latents, mask = mask) up to
\* the merged heads
CrossAttn(t) ==
    /\ th[t].pc = "cross_attn"
    /\ LET s    == th[t]
           inst == model.cross_attend_blocks[1]
           r    == CrossAttnForward(model.cfg, model.cfg.cross_heads, weights[inst],
                                    s.h, latents, s.inp.mask)
       IN  th' = [th EXCEPT ![t] =
                    IF r.err # "" THEN Raised(s, "cross_attn", inst, s.h, r.err)
                    ELSE [StepY(s, "cross_attn", inst, s.h, r.out, "cross_store")
                            EXCEPT !.raw = r.raw, !.masked = r.masked, !.sc = r.soft]]
    /\ UNCHANGED <<model, gcfg, weights, latents, scores, memo, between>>

\* lines 135-136: self.scores = scores; return h
CrossStore(t) ==
    /\ th[t].pc = "cross_store"
    /\ scores' = [scores EXCEPT ![model.cross_attend_blocks[1]] = th[t].sc]
    /\ th' = [th EXCEPT ![t].pc = "norm1"]
    /\ UNCHANGED <<model, gcfg, weights, latents, memo, between>>

\* a faulty variant: the residual is added into the latent array in place
Norm1_InPlace(t) ==
    /\ th[t].pc = "norm1"
    /\ LET s   == th[t]
           sum == AddLatent(s.y, latents)
           r   == LayerNormOp(sum, model.cfg.D, weights[model.norm1])
       IN  /\ th' = [th EXCEPT ![t] =
                       IF sum.shape = ShapeError \/ r.err # ""
                       THEN Raised(s, "norm1", model.norm1, sum, "RuntimeError:add")
                       ELSE StepX(s, "norm1", model.norm1, sum, r.out, "cross_ff")]
           /\ latents' = [latents EXCEPT !.val = [n \in DOMAIN latents.val |-> sum.val[1][n]]]
    /\ UNCHANGED <<model, gcfg, weights, scores, memo, between>>

\* line 230: x = self.norm1(... + self.latents)
Norm1(t) ==
    /\ th[t].pc = "norm1"
    /\ LET s   == th[t]
           sum == AddLatent(s.y, latents)
           r   == LayerNormOp(sum, model.cfg.D, weights[model.norm1])
       IN  th' = [th EXCEPT ![t] =
                    IF sum.shape = ShapeError \/ r.err # ""
                    THEN Raised(s, "norm1", model.norm1, sum, "RuntimeError:add")
                    ELSE StepX(s, "norm1", model.norm1, sum, r.out, "cross_ff")]
    /\ UNCHANGED <<model, gcfg, weights, latents, scores, memo, between>>

\* line 232: cross_ff(x)
CrossFF(t) ==
    /\ th[t].pc = "cross_ff"
    /\ LET s    == th[t]
           inst == model.cross_attend_blocks[2]
           r    == FeedForwardOp(model.cfg, weights[inst], s.x)
       IN  th' = [th EXCEPT ![t] =
                    IF r.err # "" THEN Raised(s, "feed_forward", inst, s.x, r.err)
                    ELSE StepY(s, "feed_forward", inst, s.x, r.out, "norm2")]
    /\ UNCHANGED <<model, gcfg, weights, latents, scores, memo, between>>

\* line 232: x = self.norm2(... + x)
Norm2(t) ==
    /\ th[t].pc = "norm2"
    /\ LET s   == th[t]
           sum == AddT(s.y, s.x)
           r   == LayerNormOp(sum, model.cfg.D, weights[model.norm2])
       IN  th' = [th EXCEPT ![t] =
                    IF sum.shape = ShapeError \/ r.err # ""
                    THEN Raised(s, "norm2", model.norm2, sum, "RuntimeError:add")
                    ELSE StepX(s, "norm2", model.norm2, sum, r.out, "range")]
    /\ UNCHANGED <<model, gcfg, weights, latents, scores, memo, between>>

\* the number of rounds line 235 asks for: range(cfg.process_layers), with
\* cfg the module-level name (forward has no local cfg, and self keeps none)
RoundCount(m, g) == g.process_layers

\* whether evaluating cfg.process_layers at line 235 succeeds
RoundCountDefined(m, g) == g.defined

\* line 235: for _ in range(cfg.process_layers), evaluated once
Range(t) ==
    /\ th[t].pc = "range"
    /\ LET s == th[t]
       IN  th' = [th EXCEPT ![t] =
                    IF ~RoundCountDefined(model, gcfg)
                    THEN [s EXCEPT !.pc = "raised", !.err = "NameError",
                                   !.x = NoTensor, !.y = NoTensor]
                    ELSE [s EXCEPT !.n = RoundCount(model, gcfg),
                                   !.pc = IF RoundCount(model, gcfg) > 0
                                          THEN "self_attn" ELSE "done"]]
    /\ UNCHANGED <<model, gcfg, weights, latents, scores, memo, between>>

\* lines 237 and 156-169: self_attn(x, mask = None) up to the merged heads
SelfAttn(t) ==
    /\ th[t].pc = "self_attn"
    /\ LET s    == th[t]
           inst == LatentLayers(model, s.i + 1)[1]
           r    == SelfAttnForward(model.cfg, model.cfg.latent_heads, weights[inst],
                                   s.x, None)
       IN  th' = [th EXCEPT ![t] =
                    IF r.err # "" THEN Raised(s, "self_attn", inst, s.x, r.err)
                    ELSE [StepY(s, "self_attn", inst, s.x, r.out, "self_store")
                            EXCEPT !.lraw = r.raw, !.lmasked = r.masked, !.sc = r.soft]]
    /\ UNCHANGED <<model, gcfg, weights, latents, scores, memo, between>>

\* lines 170-171: self.scores = scores; return h
SelfStore(t) ==
    /\ th[t].pc = "self_store"
    /\ scores' = [scores EXCEPT ![LatentLayers(model, th[t].i + 1)[1]] = th[t].sc]
    /\ th' = [th EXCEPT ![t].pc = "norm3"]
    /\ UNCHANGED <<model, gcfg, weights, latents, memo, between>>

\* a faulty variant: the self-attention output is normalized without its residual
Norm3_NoResidual(t) ==
    /\ th[t].pc = "norm3"
    /\ LET s   == th[t]
           r   == LayerNormOp(s.y, model.cfg.D, weights[model.norm3])
       IN  th' = [th EXCEPT ![t] =
                    IF r.err # ""
                    THEN Raised(s, "norm3", model.norm3, s.y, "RuntimeError:add")
                    ELSE StepX(s, "norm3", model.norm3, s.y, r.out, "self_ff")]
    /\ UNCHANGED <<model, gcfg, weights, latents, scores, memo, between>>

\* line 237: x = self.norm3(... + x)
Norm3(t) ==
    /\ th[t].pc = "norm3"
    /\ LET s   == th[t]
           sum == AddT(s.y, s.x)
           r   == LayerNormOp(sum, model.cfg.D, weights[model.norm3])
       IN  th' = [th EXCEPT ![t] =
                    IF sum.shape = ShapeError \/ r.err # ""
                    THEN Raised(s, "norm3", model.norm3, sum, "RuntimeError:add")
                    ELSE StepX(s, "norm3", model.norm3, sum, r.out, "self_ff")]
    /\ UNCHANGED <<model, gcfg, weights, latents, scores, memo, between>>

\* line 238: self_ff(x)
SelfFF(t) ==
    /\ th[t].pc = "self_ff"
    /\ LET s    == th[t]
           inst == LatentLayers(model, s.i + 1)[2]
           r    == FeedForwardOp(model.cfg, weights[inst], s.x)
       IN  th' = [th EXCEPT ![t] =
                    IF r.err # "" THEN Raised(s, "feed_forward", inst, s.x, r.err)
                    ELSE StepY(s, "feed_forward", inst, s.x, r.out, "norm4")]
    /\ UNCHANGED <<model, gcfg, weights, latents, scores, memo, between>>

\* line 238: x = self.norm4(... + x), and the loop goes to its next round
Norm4(t) ==
    /\ th[t].pc = "norm4"
    /\ LET s   == th[t]
           sum == AddT(s.y, s.x)
           r   == LayerNormOp(sum, model.cfg.D, weights[model.norm4])
           nx  == IF s.i + 1 < s.n THEN "self_attn" ELSE "done"
       IN  th' = [th EXCEPT ![t] =
                    IF sum.shape = ShapeError \/ r.err # ""
                    THEN Raised(s, "norm4", model.norm4, sum, "RuntimeError:add")
                    ELSE [StepX(s, "norm4", model.norm4, sum, r.out, nx)
                            EXCEPT !.i = s.i + 1]]
    /\ UNCHANGED <<model, gcfg, weights, latents, scores, memo, between>>

\* what the caller gets: the returned tensor (line 242) or the exception
Outcome(s) == [err |-> s.err, out |-> s.x]

Finished(s) == s.pc \in {"done", "raised"}

\* line 242: return x (or the exception reaches the caller); the observer
\* may remember this call
Return(t) ==
    /\ Finished(th[t])
    /\ th' = [th EXCEPT ![t] = Idle]
    /\ \/ /\ ~memo.set
          /\ memo' = [set |-> TRUE, inp |-> th[t].inp, outcome |-> Outcome(th[t])]
          /\ UNCHANGED between
       \/ /\ memo' = memo
          /\ between' = (between \/ (memo.set /\ th[t].inp # memo.inp))
    /\ UNCHANGED <<model, gcfg, weights, latents, scores>>

\* the caller's return when calls run concurrently (no observer)
ReturnConc(t) ==
    /\ Finished(th[t])
    /\ th' = [th EXCEPT ![t] = Idle]
    /\ UNCHANGED <<model, gcfg, weights, latents, scores, memo, between>>

Step(t) ==
    \/ Embed(t) \/ CrossAttn(t) \/ CrossStore(t) \/ Norm1(t) \/ CrossFF(t)
    \/ Norm2(t) \/ Range(t) \/ SelfAttn(t) \/ SelfStore(t) \/ Norm3(t)
    \/ SelfFF(t) \/ Norm4(t)

\* one caller, one call after another
Next ==
    \/ \E inp \in Inputs : Call(1, inp)
    \/ Step(1)
    \/ Return(1)

Spec == Init /\ [][Next]_vars

\* two callers of the same model, interleaved at every statement
NextConc ==
    \/ \E t \in Threads : \E inp \in ConcInputs : Call(t, inp)
    \/ \E t \in Threads : Step(t)
    \/ \E t \in Threads : ReturnConc(t)

SpecConc == InitConc /\ [][NextConc]_vars

(***************************************************************************)
(* Properties.                                                             *)
(***************************************************************************)
\* some index of the call is outside its embedding table
IndexOutOfRange(inp, cfg) ==
    \/ \E b \in DOMAIN inp.tok : \E i \in DOMAIN inp.tok[b] :
          inp.tok[b][i] < 0 \/ inp.tok[b][i] >= cfg.vocab_size
    \/ \E b \in DOMAIN inp.seg : \E i \in DOMAIN inp.seg[b] :
          inp.seg[b][i] < 0 \/ inp.seg[b][i] >= cfg.n_segments
    \/ Len(inp.tok[1]) > cfg.max_len

\* the configuration and the input are what the forward contract asks for
ValidCall(s) ==
    /\ ~IndexOutOfRange(s.inp, model.cfg)
    /\ model.cfg.hidden = model.cfg.C
    /\ model.cfg.D % model.cfg.cross_heads = 0
    /\ model.cfg.D % model.cfg.latent_heads = 0

BatchOf(s) == Len(s.inp.tok)

\* C1: for every valid input and consistent configuration, forward returns
\* a tensor of shape exactly [B, N, D], whatever the sequence length S.
C1_ReturnsBND ==
    \A t \in Threads :
        Finished(th[t]) /\ ValidCall(th[t]) =>
            /\ th[t].pc = "done"
            /\ th[t].x.shape = <<BatchOf(th[t]), model.cfg.N, model.cfg.D>>

\* (C1) whenever forward does return, the tensor has shape [B, N, D], and so
\* has x after every sub-block of the latent path
ShapeWhenReturned ==
    \A t \in Threads :
        th[t].pc \in {"cross_ff", "norm2", "range", "self_attn", "norm3", "self_ff",
                      "norm4", "done"} =>
            th[t].x.shape = <<BatchOf(th[t]), model.cfg.N, model.cfg.D>>

\* the sub-block that stands at position k of a forward call
CanonOp(k) ==
    IF k = 1 THEN "embed"
    ELSE IF k = 2 THEN "cross_attn"
    ELSE IF k = 3 THEN "norm1"
    ELSE IF k = 4 THEN "feed_forward"
    ELSE IF k = 5 THEN "norm2"
    ELSE IF (k - 6) % 4 = 0 THEN "self_attn"
    ELSE IF (k - 6) % 4 = 1 THEN "norm3"
    ELSE IF (k - 6) % 4 = 2 THEN "feed_forward"
    ELSE "norm4"

IsNormAt(k) == k = 3 \/ k = 5 \/ (k > 5 /\ (k - 6) % 4 \in {1, 3})

\* C2: the sub-blocks of a forward call run in the order embed, cross-attention
\* (once), norm1, feed-forward, norm2, then per round self-attention, norm3,
\* feed-forward, norm4; none runs after one that failed; a call that returns
\* ran all of them; each normalization receives the preceding sub-block's
\* output plus that sub-block's own input (the latent array for
\* cross-attention, the current x otherwise).
C2_OrderAndResiduals ==
    \A t \in Threads :
        LET tr == th[t].trace IN
        /\ \A k \in DOMAIN tr : tr[k].op = CanonOp(k)
        /\ \A k \in DOMAIN tr : k < Len(tr) => tr[k].out # NoTensor
        /\ th[t].pc = "done" => Len(tr) = 5 + 4 * th[t].i /\ tr[Len(tr)].out = th[t].x
        /\ Len(tr) >= 2 => tr[2].arg = tr[1].out
        /\ \A k \in DOMAIN tr :
              /\ k = 3 => tr[k].arg = AddLatent(tr[2].out, latents)
              /\ IsNormAt(k) /\ k > 3 => tr[k].arg = AddT(tr[k - 1].out, tr[k - 1].arg)
              /\ ~IsNormAt(k) /\ k > 3 => tr[k].arg = tr[k - 1].out

C2_Witness ==
    \E t \in Threads : th[t].pc = "done" /\ th[t].i = 2 /\ Len(th[t].trace) = 13

\* C3: a forward call on a model built from configuration c runs exactly
\* c.process_layers rounds and then returns; nothing but c decides that.
C3_RoundsFromConfig ==
    \A t \in Threads :
        Finished(th[t]) /\ ValidCall(th[t]) =>
            th[t].pc = "done" /\ th[t].i = model.cfg.process_layers

\* what construction left in the shared state
SharedAsConstructed ==
    /\ weights = InitWeights
    /\ latents = InitLatents(model.cfg)
    /\ \A k \in AttnInstances : scores[k] = None

\* two callers are both about to assign the same field
WriteWriteRace ==
    \E t1, t2 \in Threads :
        /\ t1 # t2
        /\ th[t1].pc = th[t2].pc
        /\ th[t1].pc \in {"cross_store", "self_store"}

\* C4: no forward call writes state shared with other calls on the same
\* model, so no write-write or read-write race is reachable.
C4_NoSharedWrite == SharedAsConstructed /\ ~WriteWriteRace

\* the position at which the scores field of attention instance k is assigned
StorePc(k) == IF k = model.cross_attend_blocks[1] THEN "cross_store" ELSE "self_store"

\* C4 (amended): forward calls never write the learned parameters, the latent
\* array, the model's fields or the module-level cfg; the only shared state
\* they write is the scores field of the two attention modules, assigned by
\* the attention call of whichever caller gets there.
C4_OnlyScoresWritten ==
    [][ /\ model' = model
        /\ weights' = weights
        /\ latents' = latents
        /\ gcfg' = gcfg
        /\ \A k \in AttnInstances :
              scores'[k] # scores[k] =>
                 \E t \in Threads :
                    /\ th[t].pc = StorePc(k)
                    /\ th'[t].pc # th[t].pc
                    /\ scores'[k] = th[t].sc ]_vars

C4_Witness ==
    \E t1, t2 \in Threads :
        /\ t1 # t2
        /\ th[t1].pc = "cross_store"
        /\ th[t2].pc = "cross_store"
        /\ th[t1].sc # th[t2].sc
        /\ scores[model.cross_attend_blocks[1]] # None

\* C5: a call with the same input as an earlier call on the same model has
\* the same outcome, whatever calls ran in between (the scores they left
\* behind included).
C5_Deterministic ==
    \A t \in Threads :
        Finished(th[t]) /\ memo.set /\ th[t].inp = memo.inp =>
            Outcome(th[t]) = memo.outcome

C5_Witness ==
    \E t \in Threads :
        /\ th[t].pc = "done"
        /\ memo.set
        /\ th[t].inp = memo.inp
        /\ between
        /\ th[t].i >= 1
        /\ \A k \in AttnInstances : scores[k] # None

\* the widths the spec asks to be divisible by the head counts
Divisible(cfg) == cfg.D % cfg.latent_heads = 0 /\ cfg.C % cfg.cross_heads = 0

\* C6: a configuration whose D is not divisible by the self-attention head
\* count, or whose C is not divisible by the cross-attention head count, is
\* rejected at construction, before any forward call.
C6_RejectedAtConstruction ==
    ~Divisible(model.cfg) =>
        model.status = "ConfigurationError" /\ \A t \in Threads : th[t].pc = "idle"

\* C7: embed fails exactly when a token id, a segment id or a position is
\* outside its table; forward then ends with that failure, no tensor and no
\* later sub-block.
C7_EmbedFailure ==
    \A t \in Threads :
        LET s == th[t] IN
        s.pc \notin {"idle", "embed"} =>
            IF IndexOutOfRange(s.inp, model.cfg)
            THEN /\ s.pc = "raised"
                 /\ s.err = "IndexError"
                 /\ Len(s.trace) = 1
                 /\ s.trace[1].op = "embed"
                 /\ Outcome(s) = Raise("IndexError")
            ELSE /\ s.err # "IndexError"
                 /\ s.trace[1].out.shape =
                       <<BatchOf(s), Len(s.inp.tok[1]), model.cfg.hidden>>

C7_Witness ==
    \E t \in Threads :
        /\ th[t].pc = "raised"
        /\ th[t].err = "IndexError"
        /\ \E b \in DOMAIN th[t].inp.tok : \E i \in DOMAIN th[t].inp.tok[b] :
              th[t].inp.tok[b][i] < 0

\* the mask of the call has a zero
MaskHasZero(inp) ==
    inp.mask # None /\ \E b \in DOMAIN inp.mask : \E i \in DOMAIN inp.mask[b] :
                          inp.mask[b][i] = 0

\* C8: in cross-attention every pre-softmax score [b][h][n][i] is lowered by
\* exactly 10000 when mask[b][i] = 0 and unchanged when it is 1 or there is
\* no mask; the latent self-attention rounds apply no mask.
C8_MaskPenalty ==
    \A t \in Threads :
        LET s == th[t] IN
        /\ s.raw # None =>
              \A b \in DOMAIN s.raw : \A h \in DOMAIN s.raw[b] :
              \A n \in DOMAIN s.raw[b][h] : \A i \in DOMAIN s.raw[b][h][n] :
                 s.masked[b][h][n][i] =
                    IF s.inp.mask # None /\ s.inp.mask[b][i] = 0
                    THEN s.raw[b][h][n][i] - 10000
                    ELSE s.raw[b][h][n][i]
        /\ s.raw # None /\ ~MaskHasZero(s.inp) => s.masked = s.raw
        /\ s.lraw # None => s.lmasked = s.lraw

C8_Witness ==
    \E t \in Threads :
        /\ MaskHasZero(th[t].inp)
        /\ Len(th[t].inp.mask) = 2
        /\ th[t].raw # None
        /\ th[t].masked # th[t].raw
        /\ th[t].lraw # None

\* C9: every latent round uses the one self-attention instance and the one
\* feed-forward instance of self.layers (and their parameters), and these
\* are not the instances used in the cross-attention block.
C9_SharedLatentWeights ==
    /\ model.layers[1] # model.cross_attend_blocks[1]
    /\ model.layers[2] # model.cross_attend_blocks[2]
    /\ \A t \in Threads :
          LET tr == th[t].trace IN
          \A k \in DOMAIN tr :
             /\ k = 4 => tr[k].inst = model.cross_attend_blocks[2]
             /\ k > 5 /\ tr[k].op = "self_attn" =>
                   /\ tr[k].inst = model.layers[1]
                   /\ tr[k].out = SelfAttnForward(model.cfg, model.cfg.latent_heads,
                                                  weights[model.layers[1]], tr[k].arg,
                                                  None).out
             /\ k > 5 /\ tr[k].op = "feed_forward" =>
                   /\ tr[k].inst = model.layers[2]
                   /\ tr[k].out = FeedForwardOp(model.cfg, weights[model.layers[2]],
                                                tr[k].arg).out

C9_Witness ==
    \E t \in Threads :
        /\ th[t].pc = "done"
        /\ th[t].i = 2
        /\ th[t].trace[6].inst = th[t].trace[10].inst
        /\ th[t].trace[8].inst = th[t].trace[12].inst

\* C10: with hidden # C every forward call fails with a shape mismatch at
\* the key/value projection of cross-attention.
C10_AlwaysShapeMismatch ==
    model.cfg.hidden # model.cfg.C =>
        \A t \in Threads : Finished(th[t]) => th[t].err = "RuntimeError:proj_k"

\* C10 (amended): construction accepts hidden # C; no forward call then gets
\* past cross-attention: a call whose indices pass the embedding lookups
\* fails with a shape mismatch at the key projection of cross-attention,
\* and a call with an index out of range fails earlier, in embed.
C10_HiddenNotC ==
    model.cfg.hidden # model.cfg.C =>
        /\ model.status = "constructed"
        /\ \A t \in Threads :
              LET s == th[t] IN
              /\ s.pc \in {"idle", "embed", "cross_attn", "raised"}
              /\ s.pc = "raised" =>
                    IF IndexOutOfRange(s.inp, model.cfg)
                    THEN s.err = "IndexError" /\ Len(s.trace) = 1
                    ELSE /\ s.err = "RuntimeError:proj_k"
                         /\ Len(s.trace) = 2
                         /\ s.trace[2].op = "cross_attn"

C10_Witness ==
    \E t \in Threads :
        /\ model.cfg.hidden # model.cfg.C
        /\ th[t].pc = "raised"
        /\ th[t].err = "RuntimeError:proj_k"

====
